---- MODULE Spec2Model ----
(***************************************************************************)
(* The session/connection multiplexing layer of the WhatsApp status        *)
(* linking service: the two in-memory registries of server.js (clients,    *)
(* sessions), the WebSocket accept/message/close handlers, the Baileys     *)
(* socket start-up and its connection.update / messages.upsert handlers,   *)
(* the periodic clean-up timer, and the alternative request handler of     *)
(* status-manager.js.                                                      *)
(*                                                                         *)
(* Time is counted in hours (Date.now() rounded down to the hour).         *)
(***************************************************************************)
EXTENDS Integers, Sequences, FiniteSets, Bags, TLC

\* ---------------------------------------------------------------- bounds
MaxWs == 2          \* WebSocket transports accepted in one run
MaxSockets == 2     \* calls of startWhatsAppSession in one run
MaxUuid == 1        \* identifiers uuidv4() hands out in one run
MaxTime == 2        \* the clock stops here
MaxLogouts == 1     \* disconnect requests awaiting socket.logout() at once

\* ------------------------------------------------------------ identifiers
NULL == "null"
UuidName == <<"u1", "u2", "u3", "u4">>
Uuids == {UuidName[i] : i \in 1..MaxUuid}
\* client_id values a caller may put in the URL
ClientIds == {"c1", "c2"}
\* session_id values a caller may put in the URL besides ids it was given
SuppliedSessionIds == {"c1"}
Ids == ClientIds \cup SuppliedSessionIds \cup Uuids

VARIABLES
  clients,    \* Map clientId -> [ws, sessionId, lastActivity]
  sessions,   \* Map sessionId -> [socket]
  ws,         \* the transports accepted so far: [clientId, readyState]
  socket,     \* the startWhatsAppSession calls so far, see SocketStates
  logouts,    \* bag of disconnect handlers suspended in await socket.logout()
  uuids,      \* how many uuidv4() values were handed out
  now,        \* Date.now()
  sent,       \* the frames the last step wrote to transports, in order
  uncaught,   \* the last step ended in a promise rejection nobody handles
  unboundSince, \* history: for each registered session, since when no record
                \* of clients names it (-1 while some record does)
  closedAt,   \* history: for each record without a transport, when its
              \* transport reference was cleared
  handled     \* history: the sessions for which a disconnect request has been
              \* handled and no connection has asked since

vars == <<clients, sessions, ws, socket, logouts, uuids, now, sent, uncaught,
          unboundSince, closedAt, handled>>

\* A slot of the socket table is one call of startWhatsAppSession:
\* "auth": awaiting useMultiFileAuthState, no socket constructed yet;
\* "live": makeWASocket returned and the handlers are attached; the provider
\*         may deliver any of its events, in any order, until the link ends;
\* "dead": the start-up threw, the provider reported close, or the disconnect
\*         handler called socket.end(): none of its handlers runs again, so
\*         nothing of the call is kept.
SocketStates == {"auth", "live", "dead"}
DeadSocket == [sessionId |-> NULL, clientId |-> NULL, state |-> "dead", origin |-> NULL]
Live(a) == socket[a].state = "live"

\* ------------------------------------------------------------ Map helpers
MapSet(m, k, v) == [x \in DOMAIN m \cup {k} |-> IF x = k THEN v ELSE m[x]]
MapDelete(m, k) == [x \in DOMAIN m \ {k} |-> m[x]]
EmptyMap == [x \in {} |-> NULL]

\* ------------------------------------------------------------- transports
\* w is the transport table the check reads (ws, or ws' inside the accept
\* handler, which sends on the transport it has just been given)
IsOpen(w, t) == t \in 1..Len(w) /\ w[t].readyState = "OPEN"

Frame(t, type, info) == [to |-> t, type |-> type, info |-> info]

\* ws.send(...) on transport t: a closed transport drops the frame
WsSend(w, t, type, info) == IF IsOpen(w, t) THEN <<Frame(t, type, info)>> ELSE <<>>

\* client?.ws && client.ws.readyState === WebSocket.OPEN, then client.ws.send,
\* for the record stored under key in the registry cl
ClientSend(cl, w, key, type, info) ==
  IF key \in DOMAIN cl /\ cl[key].ws # 0 /\ IsOpen(w, cl[key].ws)
  THEN <<Frame(cl[key].ws, type, info)>>
  ELSE <<>>

sendQrToClient(clientId, status) ==
  ClientSend(clients, ws, clientId, "qr_code_status", status)

\* fetchCurrentStatuses(socket, clientId), with cl and w the tables it reads
fetchCurrentStatuses(cl, w, clientId) ==
  ClientSend(cl, w, clientId, "status_fetch_start", "") \o
  ClientSend(cl, w, clientId, "info", "")

Sockets == 1..Len(socket)
Transports == 1..Len(ws)

Init ==
  /\ clients = EmptyMap
  /\ sessions = EmptyMap
  /\ ws = <<>>
  /\ socket = <<>>
  /\ logouts = EmptyBag
  /\ uuids = 0
  /\ now = 0
  /\ sent = <<>>
  /\ uncaught = FALSE
  /\ unboundSince = EmptyMap
  /\ closedAt = EmptyMap
  /\ handled = {}

\* the history of the registries cl and ss after a step taken at time now
Track(cl, ss) ==
  [s \in DOMAIN ss |->
     IF \E c \in DOMAIN cl : cl[c].sessionId = s THEN -1
     ELSE IF s \in DOMAIN unboundSince /\ unboundSince[s] # -1 THEN unboundSince[s]
     ELSE now]

\* ------------------------------------------------- wss.on('connection')
\* session_id values that can arrive: none, or a caller-chosen string. An id
\* made by uuidv4() never arrives: the server tells it to nobody (the only
\* frame that carries a session id, connection_success, echoes the id the
\* caller supplied).
SessionIdInputs == {NULL} \cup SuppliedSessionIds
\* client_id values that can arrive: every caller names itself, so the
\* uuidv4() default of the accept handler is not exercised
ClientIdInputs == ClientIds

\* the synchronous head of startWhatsAppSession(sessionId, sendQrToClient):
\* everything up to the await of useMultiFileAuthState. clientId is the one
\* the sendQrToClient closure captured.
startWhatsAppSession(sock, sessionId, clientId, origin) ==
  Append(sock, [sessionId |-> sessionId, clientId |-> clientId,
                state |-> "auth", origin |-> origin])

wssConnection(cid, existingSessionId) ==
  LET genClient == cid = NULL
      clientId == IF genClient THEN UuidName[uuids + 1] ELSE cid
      u1 == IF genClient THEN uuids + 1 ELSE uuids
      t == Len(ws) + 1
      known == existingSessionId # NULL /\ existingSessionId \in DOMAIN sessions
      genSession == ~known /\ existingSessionId = NULL
      sessionId == IF existingSessionId # NULL THEN existingSessionId
                   ELSE UuidName[u1 + 1]
      u2 == IF genSession THEN u1 + 1 ELSE u1
      record == [ws |-> t, sessionId |-> IF known THEN existingSessionId ELSE sessionId,
                 lastActivity |-> now]
      clients1 == MapSet(clients, clientId, record)
      ws1 == Append(ws, [clientId |-> clientId, readyState |-> "OPEN"])
  IN /\ Len(ws) < MaxWs
     /\ u2 <= MaxUuid
     /\ ws' = ws1
     /\ uuids' = u2
     /\ clients' = clients1
     /\ IF known
        THEN /\ sent' = WsSend(ws1, t, "connection_success", existingSessionId) \o
                        fetchCurrentStatuses(clients1, ws1, clientId)
             /\ UNCHANGED socket
        ELSE /\ Len(socket) < MaxSockets
             /\ socket' = startWhatsAppSession(socket, sessionId, clientId, "accept")
             /\ sent' = <<>>
     /\ uncaught' = FALSE
     /\ unboundSince' = Track(clients1, sessions)
     /\ closedAt' = MapDelete(closedAt, clientId)
     /\ handled' = handled \ {IF known THEN existingSessionId ELSE sessionId}
     /\ UNCHANGED <<sessions, logouts, now>>

\* ------------------------------------------------ startWhatsAppSession
\* useMultiFileAuthState resolved: makeWASocket, the handlers are attached,
\* sessions.set(sessionId, {socket})
startResolve(a) ==
  /\ a \in Sockets /\ socket[a].state = "auth"
  /\ socket' = [socket EXCEPT ![a].state = "live"]
  /\ sessions' = MapSet(sessions, socket[a].sessionId, [socket |-> a])
  /\ sent' = <<>>
  /\ uncaught' = FALSE
  /\ unboundSince' = Track(clients, sessions')
  /\ UNCHANGED <<clients, ws, logouts, uuids, now, closedAt, handled>>

\* a start-up that registers the session before it can fail: the entry stays
startRejectKeepsEntry(a) ==
  /\ a \in Sockets /\ socket[a].state = "auth"
  /\ socket' = [socket EXCEPT ![a] = DeadSocket]
  /\ sessions' = MapSet(sessions, socket[a].sessionId, [socket |-> a])
  /\ sent' = sendQrToClient(socket[a].clientId, "error")
  /\ uncaught' = (socket[a].origin = "reconnect")
  /\ unboundSince' = Track(clients, sessions')
  /\ UNCHANGED <<clients, ws, logouts, uuids, now, closedAt, handled>>

\* useMultiFileAuthState or makeWASocket threw: the catch block reports it
\* and rethrows. The accept handler has a .catch; the reconnect path awaits
\* inside an event handler whose promise nobody observes.
startReject(a) ==
  /\ a \in Sockets /\ socket[a].state = "auth"
  /\ socket' = [socket EXCEPT ![a] = DeadSocket]
  /\ sent' = sendQrToClient(socket[a].clientId, "error")
  /\ uncaught' = (socket[a].origin = "reconnect")
  /\ UNCHANGED <<clients, sessions, ws, logouts, uuids, now, unboundSince,
               closedAt, handled>>

\* ------------------------------------- socket.ev.on('connection.update')
\* update.qr: qrcode.toDataURL may fail, which is logged and nothing is sent
connectionUpdateQr(a, rendered) ==
  /\ a \in Sockets /\ Live(a)
  /\ sent' = IF rendered THEN sendQrToClient(socket[a].clientId, "generated") ELSE <<>>
  /\ uncaught' = FALSE
  /\ UNCHANGED <<clients, sessions, ws, socket, logouts, uuids, now, unboundSince,
               closedAt, handled>>

\* connection === 'open'
connectionUpdateOpen(a) ==
  /\ a \in Sockets /\ Live(a)
  /\ sent' = sendQrToClient(socket[a].clientId, "connected")
  /\ uncaught' = FALSE
  /\ UNCHANGED <<clients, sessions, ws, socket, logouts, uuids, now, unboundSince,
               closedAt, handled>>

\* what lastDisconnect can carry: a Boom error with status code loggedOut, a
\* Boom error with another status code, or no Boom error at all (no error,
\* as after socket.end(undefined), or an error of another class)
CloseReasons == {"loggedOut", "boom", "none"}

\* the test without the status code: every Boom error asks for a restart
shouldReconnectAnyBoom(lastDisconnect) == lastDisconnect # "none"

\* lastDisconnect?.error instanceof Boom &&
\* lastDisconnect.error.output?.statusCode !== DisconnectReason.loggedOut
shouldReconnect(lastDisconnect) == lastDisconnect = "boom"

\* connection === 'close'; recoverable is the handler's shouldReconnect
connectionUpdateClose(a, recoverable) ==
  /\ a \in Sockets /\ Live(a)
  /\ sessions' = MapDelete(sessions, socket[a].sessionId)
  /\ IF recoverable
     THEN /\ Len(socket) < MaxSockets
          /\ socket' = startWhatsAppSession([socket EXCEPT ![a] = DeadSocket],
                                            socket[a].sessionId, socket[a].clientId,
                                            "reconnect")
          /\ sent' = <<>>
     ELSE /\ socket' = [socket EXCEPT ![a] = DeadSocket]
          /\ sent' = sendQrToClient(socket[a].clientId, "disconnected")
  /\ uncaught' = FALSE
  /\ unboundSince' = Track(clients, sessions')
  /\ UNCHANGED <<clients, ws, logouts, uuids, now, closedAt, handled>>

\* --------------------------------------- socket.ev.on('messages.upsert')
\* one status@broadcast message of a notify batch: the receiver is looked up
\* in clients under the socket's sessionId
messagesUpsert(a) ==
  /\ a \in Sockets /\ Live(a)
  /\ sent' = ClientSend(clients, ws, socket[a].sessionId, "status_update", "")
  /\ uncaught' = FALSE
  /\ UNCHANGED <<clients, sessions, ws, socket, logouts, uuids, now, unboundSince,
               closedAt, handled>>

\* ------------------------------------------------------ ws.on('message')
\* what a frame can be: not JSON; the JSON value null; or an object whose
\* type is one of the request kinds ("other" stands for every type the
\* switch of server.js has no case for: authenticate, request_thumbnail, ...)
FrameKinds == {"malformed", "json_null", "heartbeat", "request_status_updates",
               "request_media", "disconnect", "other"}

\* the handler without the refresh: lastActivity stays as it was
touchSkipped(clientId) == clients

\* client.lastActivity = Date.now(), if the record exists
touch(clientId) ==
  IF clientId \in DOMAIN clients
  THEN [clients EXCEPT ![clientId].lastActivity = now]
  ELSE clients

\* const socket = sessionData?.socket, for the record cl[clientId];
\* 0 stands for undefined
boundSocket(cl, clientId) ==
  IF cl[clientId].sessionId # NULL /\ cl[clientId].sessionId \in DOMAIN sessions
  THEN sessions[cl[clientId].sessionId].socket
  ELSE 0

\* the else branch left empty: nothing is written when there is no socket
NoSessionErrorOmitted(t) == <<>>

\* the else branch of the two request cases
NoSessionError(t) == WsSend(ws, t, "error", "NO_SESSION")

\* the frames handleClientMessage(clientId, data, ws) writes before it
\* returns or reaches its first await that depends on the provider
handleClientMessage(cl, clientId, type, t) ==
  IF clientId \notin DOMAIN cl THEN <<>>
  ELSE LET sock == boundSocket(cl, clientId) IN
    CASE type = "request_status_updates" ->
           IF sock # 0 THEN fetchCurrentStatuses(cl, ws, clientId)
           ELSE NoSessionError(t)
      [] type = "request_media" ->
           IF sock # 0 THEN WsSend(ws, t, "error", "NOT_IMPLEMENTED")
           ELSE NoSessionError(t)
      [] OTHER -> <<>>

\* the catch block left to log only: the sender is told nothing
MessageErrorSwallowed(t) == <<>>

\* the catch block of the message handler: JSON.parse threw
MessageError(t) == WsSend(ws, t, "error", "MESSAGE_ERROR")

\* the history after a disconnect request for session s has been handled. A
\* request handled while a start-up that a connection asked for is still
\* awaiting its credentials is not counted: that connection's session is
\* yet to come.
Handled(s) ==
  IF \E a \in Sockets : /\ socket[a].state = "auth" /\ socket[a].origin = "accept"
                        /\ socket[a].sessionId = s
  THEN handled
  ELSE handled \cup {s}

wsMessage(t, kind) ==
  LET clientId == ws[t].clientId
      clients1 == touch(clientId)
      \* case 'disconnect' with a socket: the handler suspends in socket.logout()
      suspends == /\ kind = "disconnect"
                  /\ clientId \in DOMAIN clients1
                  /\ boundSocket(clients1, clientId) # 0
  IN /\ t \in Transports /\ IsOpen(ws, t)
     /\ IF kind = "malformed"
        THEN \* JSON.parse throws, the catch block answers
             /\ sent' = MessageError(t)
             /\ uncaught' = FALSE
             /\ UNCHANGED <<clients, logouts>>
        ELSE /\ clients' = clients1
             /\ IF kind = "json_null"
                THEN \* const { type } = null throws inside the async function
                     /\ sent' = <<>>
                     /\ uncaught' = TRUE
                     /\ UNCHANGED logouts
                ELSE /\ sent' = handleClientMessage(clients1, clientId, kind, t)
                     /\ uncaught' = FALSE
                     /\ IF suspends
                        THEN /\ BagCardinality(logouts) < MaxLogouts
                             /\ logouts' = logouts (+)
                                  SetToBag({[ws |-> t,
                                             sessionId |-> clients1[clientId].sessionId,
                                             socket |-> boundSocket(clients1, clientId)]})
                        ELSE UNCHANGED logouts
     \* case 'disconnect' without a socket: the handler returns at once
     /\ handled' = IF kind = "disconnect" /\ clientId \in DOMAIN clients1 /\ ~suspends
                   THEN Handled(clients1[clientId].sessionId)
                   ELSE handled
     /\ UNCHANGED <<sessions, ws, socket, uuids, now, unboundSince, closedAt>>

\* the continuation without its sessions.delete: acknowledged while the
\* session is still registered
logoutResolveKeepsSession(p) ==
  /\ BagIn(p, logouts)
  /\ logouts' = logouts (-) SetToBag({p})
  /\ socket' = [socket EXCEPT ![p.socket] = DeadSocket]
  /\ sent' = WsSend(ws, p.ws, "disconnected", "")
  /\ uncaught' = FALSE
  /\ UNCHANGED <<clients, sessions, ws, uuids, now, unboundSince, closedAt, handled>>

\* socket.logout() resolved: socket.end(undefined), sessions.delete(sessionId),
\* then the acknowledgment on the requester's transport
logoutResolve(p) ==
  /\ BagIn(p, logouts)
  /\ logouts' = logouts (-) SetToBag({p})
  /\ socket' = [socket EXCEPT ![p.socket] = DeadSocket]
  /\ sessions' = MapDelete(sessions, p.sessionId)
  /\ sent' = WsSend(ws, p.ws, "disconnected", "")
  /\ uncaught' = FALSE
  /\ unboundSince' = Track(clients, sessions')
  /\ handled' = Handled(p.sessionId)
  /\ UNCHANGED <<clients, ws, uuids, now, closedAt>>

\* socket.logout() rejected: handleClientMessage is not awaited by its caller,
\* so the rejection is nobody's
logoutReject(p) ==
  /\ BagIn(p, logouts)
  /\ logouts' = logouts (-) SetToBag({p})
  /\ sent' = <<>>
  /\ uncaught' = TRUE
  /\ UNCHANGED <<clients, sessions, ws, socket, uuids, now, unboundSince,
               closedAt, handled>>

\* -------------------------------------------------------- ws.on('close')
\* the close handler deleting the record at once instead of keeping it for a
\* reconnection
wsCloseRemovesRecord(t) ==
  /\ t \in Transports /\ IsOpen(ws, t)
  /\ ws' = [ws EXCEPT ![t].readyState = "CLOSED"]
  /\ clients' = MapDelete(clients, ws[t].clientId)
  /\ sent' = <<>>
  /\ uncaught' = FALSE
  /\ unboundSince' = Track(clients', sessions)
  /\ closedAt' = MapDelete(closedAt, ws[t].clientId)
  /\ UNCHANGED <<sessions, socket, logouts, uuids, now, handled>>

wsClose(t) ==
  /\ t \in Transports /\ IsOpen(ws, t)
  /\ ws' = [ws EXCEPT ![t].readyState = "CLOSED"]
  /\ clients' = IF ws[t].clientId \in DOMAIN clients
                THEN [clients EXCEPT ![ws[t].clientId].ws = 0]
                ELSE clients
  /\ closedAt' = IF ws[t].clientId \in DOMAIN clients /\ clients[ws[t].clientId].ws # 0
                 THEN MapSet(closedAt, ws[t].clientId, now)
                 ELSE closedAt
  /\ sent' = <<>>
  /\ uncaught' = FALSE
  /\ UNCHANGED <<sessions, socket, logouts, uuids, now, unboundSince, handled>>

\* ------------------------------------------------- setInterval (clean-up)
\* 1000 * 60 * 60 ms, in hours
inactiveTimeout == 1

\* the test with >= for >: a record is reaped at the timeout, not after it
InactiveAtTimeout(client) ==
  client.ws = 0 /\ now - client.lastActivity >= inactiveTimeout

Inactive(client) == client.ws = 0 /\ now - client.lastActivity > inactiveTimeout

reaper ==
  /\ clients' = [c \in {x \in DOMAIN clients : ~Inactive(clients[x])} |-> clients[c]]
  /\ sent' = <<>>
  /\ uncaught' = FALSE
  /\ unboundSince' = Track(clients', sessions)
  /\ closedAt' = [c \in DOMAIN closedAt \cap DOMAIN clients' |-> closedAt[c]]
  /\ UNCHANGED <<sessions, ws, socket, logouts, uuids, now, handled>>

\* ------------------------------- status-manager.js handleClientMessage
\* handleClientMessage(clientId, data, ws, clients, whatsappClients) of
\* status-manager.js, applied to the two registries. outcome is what the
\* provider call does: "data" (a result to send), "empty" (nothing to send)
\* or "throw".
ManagerKinds == {"heartbeat", "request_status_updates", "request_media",
                 "request_thumbnail"}
\* refreshStatuses sends nothing when there is no status to report; the two
\* media functions either send or throw
Outcomes(type) == IF type = "request_status_updates" THEN {"data", "empty", "throw"}
                  ELSE IF type = "heartbeat" THEN {"empty"}
                  ELSE {"data", "throw"}

\* the try without its catch: a throwing provider call answers nothing
managerFramesNoCatch(t, haveClient, outcome, dataType, errorCode) ==
  IF ~haveClient THEN WsSend(ws, t, "error", "NO_CLIENT")
  ELSE IF outcome = "data" THEN WsSend(ws, t, dataType, "") ELSE <<>>

\* outcome of downloadAndSendMedia / generateAndSendThumbnail: "throw" is
\* what a status id without a message (Status not found) or without media
\* (Status has no media) ends in, as does a failing download
managerFrames(t, haveClient, outcome, dataType, errorCode) ==
  IF ~haveClient THEN WsSend(ws, t, "error", "NO_CLIENT")
  ELSE CASE outcome = "data" -> WsSend(ws, t, dataType, "")
         [] outcome = "empty" -> <<>>
         [] outcome = "throw" -> WsSend(ws, t, "error", errorCode)

statusManagerHandleClientMessage(t, type, outcome) ==
  LET clientId == ws[t].clientId
      haveClient == boundSocket(clients, clientId) # 0
  IN /\ t \in Transports /\ IsOpen(ws, t)
     /\ sent' =
          IF clientId \notin DOMAIN clients THEN <<>>
          ELSE CASE type = "request_status_updates" ->
                      managerFrames(t, haveClient, outcome, "status_update", "REFRESH_ERROR")
                 [] type = "request_media" ->
                      managerFrames(t, haveClient, outcome, "media_data", "MEDIA_ERROR")
                 [] type = "request_thumbnail" ->
                      managerFrames(t, haveClient, outcome, "thumbnail_data", "THUMBNAIL_ERROR")
                 [] OTHER -> <<>>
     /\ uncaught' = FALSE
     /\ UNCHANGED <<clients, sessions, ws, socket, logouts, uuids, now, unboundSince,
               closedAt, handled>>

\* --------------------------------- whatsapp-client.js client.on('ready')
\* the ready handler of the Client that setupWhatsAppClient(clientId, ws) made
\* for transport t: the frame's session_id is the clientId it was given
clientReady(t) ==
  /\ t \in Transports /\ IsOpen(ws, t)
  /\ sent' = WsSend(ws, t, "connection_success", ws[t].clientId)
  /\ uncaught' = FALSE
  /\ UNCHANGED <<clients, sessions, ws, socket, logouts, uuids, now, unboundSince,
               closedAt, handled>>

\* the clock advances
Tick ==
  /\ now < MaxTime
  /\ now' = now + 1
  /\ sent' = <<>>
  /\ uncaught' = FALSE
  /\ UNCHANGED <<clients, sessions, ws, socket, logouts, uuids, unboundSince,
               closedAt, handled>>

Next ==
  \/ \E cid \in ClientIdInputs, sid \in SessionIdInputs : wssConnection(cid, sid)
  \/ \E a \in Sockets : startResolve(a)
  \/ \E a \in Sockets : startReject(a)
  \/ \E a \in Sockets, rendered \in BOOLEAN : connectionUpdateQr(a, rendered)
  \/ \E a \in Sockets : connectionUpdateOpen(a)
  \/ \E a \in Sockets, lastDisconnect \in CloseReasons :
        connectionUpdateClose(a, shouldReconnect(lastDisconnect))
  \/ \E a \in Sockets : messagesUpsert(a)
  \/ \E t \in Transports, kind \in FrameKinds : wsMessage(t, kind)
  \/ \E p \in BagToSet(logouts) : logoutResolve(p)
  \/ \E p \in BagToSet(logouts) : logoutReject(p)
  \/ \E t \in Transports : wsClose(t)
  \/ reaper
  \/ \E t \in Transports, type \in ManagerKinds : \E outcome \in Outcomes(type) :
        statusManagerHandleClientMessage(t, type, outcome)
  \/ \E t \in Transports : clientReady(t)
  \/ Tick

Spec == Init /\ [][Next]_vars

\* The event loop runs every continuation that is ready: an await of
\* useMultiFileAuthState and an await of socket.logout() come back, one way
\* or the other. Nothing obliges clients, the provider or the clock.
FairSpec ==
  /\ Spec
  /\ WF_vars(\E a \in Sockets : startResolve(a) \/ startReject(a))
  /\ WF_vars(\E p \in BagToSet(logouts) : logoutResolve(p) \/ logoutReject(p))

\* ===================================================================
\* Properties
\* ===================================================================
Range(f) == {f[i] : i \in DOMAIN f}
SessionIds == SuppliedSessionIds \cup Uuids

\* the records of clients bound to session s
BoundTo(s) == {c \in DOMAIN clients : clients[c].sessionId = s}
\* a start-up for session s is awaiting its credentials
Starting(s) == \E a \in Sockets : socket[a].state = "auth" /\ socket[a].sessionId = s
\* the most recently accepted transport of client c is open
LatestOpen(c) ==
  \E t \in Transports :
     /\ ws[t].clientId = c /\ IsOpen(ws, t)
     /\ \A u \in Transports : ws[u].clientId = c => u <= t
\* the transports of the records bound to s that can take a frame
LiveBoundTransports(s) ==
  {clients[c].ws : c \in {x \in BoundTo(s) : clients[x].ws # 0 /\ IsOpen(ws, clients[x].ws)}}

\* C1: connection attempts that carry the same session_id while it is not in
\* the session registry get exactly one socket constructed between them: no
\* two sockets constructed on behalf of accept handlers for one sessionId
\* exist side by side.
C1_OneSocketPerRacedId ==
  \A a, b \in Sockets :
     (/\ a # b
      /\ Live(a) /\ Live(b)
      /\ socket[a].origin = "accept" /\ socket[b].origin = "accept")
     => socket[a].sessionId # socket[b].sessionId

\* C2: a client whose transport closed and whose record is still within the
\* inactivity timeout reconnects with the same client_id and session_id while
\* that session is registered or being created: the record stays bound to
\* that session and the accept handler starts no new socket.
C2_ResumeWithoutNewSocket ==
  [][\A c \in ClientIds, s \in SessionIds :
       (/\ c \in DOMAIN clients
        /\ clients[c].ws = 0
        /\ clients[c].sessionId = s
        /\ now - clients[c].lastActivity <= inactiveTimeout
        /\ (s \in DOMAIN sessions \/ Starting(s))
        /\ wssConnection(c, s))
       => (socket' = socket /\ clients'[c].sessionId = s)]_vars

\* C3: a clean-up sweep removes from the session registry every session that
\* no record of clients has named for longer than the inactivity timeout, and
\* removes no other session.
C3_ReaperDestroysOrphanSessions ==
  [][reaper =>
       \A s \in DOMAIN sessions :
          (s \notin DOMAIN sessions') <=>
          (unboundSince[s] # -1 /\ now - unboundSince[s] > inactiveTimeout)]_vars

\* C4: a clean-up sweep never removes the record of a client whose most
\* recently accepted transport is still open.
C4_ReaperSparesLiveTransport ==
  [][reaper => \A c \in DOMAIN clients : LatestOpen(c) => c \in DOMAIN clients']_vars

\* C5: a provider event of a session's socket (a status message, connected,
\* a rendered pairing code, logged out) is written to the open transport of
\* every record bound to that session, and to no other transport.
C5_FanOutToBoundConnections ==
  [][\A a \in Sockets :
       (\/ messagesUpsert(a)
        \/ connectionUpdateOpen(a)
        \/ connectionUpdateQr(a, TRUE)
        \/ connectionUpdateClose(a, FALSE))
       => {f.to : f \in Range(sent')} = LiveBoundTransports(socket[a].sessionId)]_vars

\* C6: a disconnect request that directly follows the acknowledgment of a
\* disconnect request on the same transport is acknowledged too (its handler
\* reaches socket.logout(), whose completion writes the acknowledgment), and
\* draws no error frame.
C6_SecondDisconnectAcknowledged ==
  [][\A t \in Transports :
       (/\ Frame(t, "disconnected", "") \in Range(sent)
        /\ ws[t].clientId \in DOMAIN clients
        /\ clients[ws[t].clientId].sessionId # NULL
        /\ wsMessage(t, "disconnect"))
       => (/\ \A f \in Range(sent') : f.type # "error"
           /\ \/ logouts' # logouts
              \/ Frame(t, "disconnected", "") \in Range(sent'))]_vars

\* the connection of transport t has a record and no socket to talk to
NoSession(t) ==
  /\ ws[t].clientId \in DOMAIN clients
  /\ boundSocket(clients, ws[t].clientId) = 0
\* the step left both registries alone, but for the requester's lastActivity
OnlyTouched(c) ==
  /\ sessions' = sessions
  /\ clients' = [clients EXCEPT ![c].lastActivity = now]
RequestKinds == {"request_status_updates", "request_media"}

C8_OneLiveSocketPerSession ==
  \A s \in SessionIds :
     Cardinality({a \in Sockets : Live(a) /\ socket[a].sessionId = s}) <= 1

\* C9: no step removes a session from the registry (without starting its
\* re-creation) while a record of clients still names it.
C9_NoSessionRemovedWhileReferenced ==
  [][\A s \in DOMAIN sessions :
       (s \notin DOMAIN sessions' /\ ~Starting(s)')
       => \A c \in DOMAIN clients' : clients'[c].sessionId # s]_vars

\* the handler's failure reached the requester's transport t as one error
\* frame, left the transport open and escaped nowhere else
FailureReported(t) ==
  /\ ~uncaught'
  /\ Len(sent') = 1 /\ sent'[1].to = t /\ sent'[1].type = "error"
  /\ ws' = ws

\* C10: a provider call that fails while a client request is handled (the
\* logout of a disconnect, a fetch of statuses or media) ends in one error
\* frame on the requester's open transport and in no unhandled rejection.
C10_RequestFailuresReported ==
  [][/\ \A p \in BagToSet(logouts) :
          (IsOpen(ws, p.ws) /\ logoutReject(p)) => FailureReported(p.ws)
     /\ \A t \in Transports, type \in ManagerKinds \ {"heartbeat"} :
          (/\ ws[t].clientId \in DOMAIN clients
           /\ boundSocket(clients, ws[t].clientId) # 0
           /\ statusManagerHandleClientMessage(t, type, "throw"))
          => FailureReported(t)]_vars

\* C11: a frame that is not JSON is answered with exactly one error frame of
\* code MESSAGE_ERROR on the sender's transport; the transport stays open (so
\* the message handler accepts its next frame), and no record, binding,
\* lastActivity or session changes.
C11_MalformedFrameAnswered ==
  [][\A t \in Transports :
       wsMessage(t, "malformed") =>
         /\ sent' = <<Frame(t, "error", "MESSAGE_ERROR")>>
         /\ ~uncaught'
         /\ IsOpen(ws', t)
         /\ clients' = clients /\ sessions' = sessions]_vars

\* C11 witness: a connection bound to a registered session, silent since an
\* earlier hour, has just been answered MESSAGE_ERROR.
C11_Witness ==
  \E t \in Transports :
     /\ sent = <<Frame(t, "error", "MESSAGE_ERROR")>>
     /\ IsOpen(ws, t)
     /\ ws[t].clientId \in DOMAIN clients
     /\ clients[ws[t].clientId].sessionId \in DOMAIN sessions
     /\ clients[ws[t].clientId].lastActivity < now

\* the connection of transport t has a record bound to a registered session
HasSession(t) ==
  /\ ws[t].clientId \in DOMAIN clients
  /\ boundSocket(clients, ws[t].clientId) # 0

\* C12: a request_media for a status id that has no message or no media,
\* from a connection bound to a registered session, is answered with exactly
\* one error frame on the requester's transport, code NOT_IMPLEMENTED from
\* the handler of server.js and MEDIA_ERROR from the handler of
\* status-manager.js; no media_data frame is written, nothing is left
\* unhandled and the transport stays open.
C12_MediaRequestFails ==
  [][\A t \in Transports :
       HasSession(t) =>
         /\ wsMessage(t, "request_media") =>
              /\ sent' = <<Frame(t, "error", "NOT_IMPLEMENTED")>>
              /\ ~uncaught' /\ IsOpen(ws', t)
         /\ statusManagerHandleClientMessage(t, "request_media", "throw") =>
              /\ sent' = <<Frame(t, "error", "MEDIA_ERROR")>>
              /\ ~uncaught' /\ IsOpen(ws', t)]_vars

\* C12 witness: a connection whose session is registered has just been
\* answered MEDIA_ERROR.
C12_Witness ==
  \E t \in Transports :
     /\ HasSession(t)
     /\ IsOpen(ws, t)
     /\ sent = <<Frame(t, "error", "MEDIA_ERROR")>>

\* C13: the close of a transport changes nothing of the registries but the
\* transport reference of the record of the transport's client: the record
\* stays, with the sessionId and lastActivity it had, every other record is
\* as it was, and the session registry is unchanged.
C13_CloseClearsTransportOnly ==
  [][\A t \in Transports :
       wsClose(t) =>
         /\ sessions' = sessions
         /\ DOMAIN clients' = DOMAIN clients
         /\ \A c \in DOMAIN clients :
              IF c = ws[t].clientId
              THEN clients'[c] = [clients[c] EXCEPT !.ws = 0]
              ELSE clients'[c] = clients[c]]_vars

\* C13 witness: a closed transport whose record is still in the registry,
\* without a transport, bound to a registered session, with a lastActivity
\* older than the clock, while another client's record exists.
C13_Witness ==
  \E t \in Transports :
     /\ ~IsOpen(ws, t)
     /\ ws[t].clientId \in DOMAIN clients
     /\ clients[ws[t].clientId].ws = 0
     /\ clients[ws[t].clientId].sessionId \in DOMAIN sessions
     /\ clients[ws[t].clientId].lastActivity < now
     /\ DOMAIN clients # {ws[t].clientId}

\* C14: a transport that connects with a client_id whose record has no
\* transport is attached to that record, and the record keeps the session it
\* was bound to, when the reconnect names that session and also when it
\* carries no session_id.
C14_ReconnectKeepsBinding ==
  [][\A c \in ClientIdInputs, sid \in SessionIdInputs :
       (/\ c \in DOMAIN clients
        /\ clients[c].ws = 0
        /\ sid \in {NULL, clients[c].sessionId}
        /\ wssConnection(c, sid))
       => (/\ clients'[c].ws = Len(ws')
           /\ clients'[c].sessionId = clients[c].sessionId)]_vars

\* C15: a connection that arrives with a session_id the session registry does
\* not hold gets a session created under a freshly allocated id: the socket
\* the accept handler starts, and the binding of the record, carry an id made
\* by uuidv4(), not the id the client supplied.
C15_UnknownIdGetsFreshSession ==
  [][\A c \in ClientIdInputs, sid \in SessionIdInputs \ {NULL} :
       (sid \notin DOMAIN sessions /\ wssConnection(c, sid))
       => (/\ socket'[Len(socket')].sessionId \in Uuids
           /\ clients'[c].sessionId \in Uuids)]_vars

\* the handlers of socket a have run for the last time and the step started
\* no socket
Terminal(a) ==
  /\ Len(socket') = Len(socket)
  /\ socket'[a].state = "dead"
\* the step ended socket a and started exactly one socket, for a's sessionId
RestartedOnce(a) ==
  /\ Len(socket') = Len(socket) + 1
  /\ socket'[a].state = "dead"
  /\ socket'[Len(socket')].state = "auth"
  /\ socket'[Len(socket')].sessionId = socket[a].sessionId
  /\ \A b \in Sockets \ {a} : socket'[b] = socket[b]

\* C16: the close handler takes exactly one of two ways. A close that is not
\* a Boom error with a status code other than loggedOut (the logout case) is
\* terminal: the session leaves the registry and no socket is started. Every
\* other close starts exactly one socket for the same sessionId. A completed
\* logout of a disconnect request is terminal too, and a socket that has
\* ended never runs again.
C16_LogoutTerminalElseOneRestart ==
  [][/\ \A a \in Sockets, r \in CloseReasons :
          connectionUpdateClose(a, shouldReconnect(r)) =>
            IF r = "boom"
            THEN RestartedOnce(a)
            ELSE Terminal(a) /\ socket[a].sessionId \notin DOMAIN sessions'
     /\ \A p \in BagToSet(logouts) :
          logoutResolve(p) =>
            Terminal(p.socket) /\ p.sessionId \notin DOMAIN sessions'
     /\ \A a \in Sockets :
          socket[a].state = "dead" => socket'[a].state = "dead"]_vars

\* C16 witness: a socket has ended in a close that asked for a restart, and
\* the socket started in its place is live and registered.
C16_Witness ==
  \E a, b \in Sockets :
     /\ socket[a].state = "dead"
     /\ socket[b].origin = "reconnect" /\ Live(b)
     /\ socket[b].sessionId \in DOMAIN sessions

\* the client of transport t connected without a session_id (its record is
\* bound to an id made by uuidv4()), the transport is open, and the socket
\* created for it has just reported connected
NewSessionConnected(t) ==
  /\ t \in Transports /\ IsOpen(ws, t)
  /\ ws[t].clientId \in DOMAIN clients
  /\ clients[ws[t].clientId].ws = t
  /\ clients[ws[t].clientId].sessionId \in Uuids
  /\ sent = <<Frame(t, "qr_code_status", "connected")>>
\* transport t has just been sent connection_success with the id of the
\* session its record is bound to
GotConnectionSuccess(t) ==
  /\ t \in Transports
  /\ ws[t].clientId \in DOMAIN clients
  /\ Frame(t, "connection_success", clients[ws[t].clientId].sessionId) \in Range(sent)

\* C17: once the socket created for a client that connected without a
\* session_id has reported connected, that client is eventually sent
\* connection_success with the id of its session, unless its transport
\* closes first.
C17_NewSessionGetsConnectionSuccess ==
  \A t \in 1..MaxWs :
     NewSessionConnected(t) ~> (GotConnectionSuccess(t) \/ ~IsOpen(ws, t))

\* C18: a clean-up sweep removes a record if and only if the record has no
\* transport and now - lastActivity is strictly greater than the inactivity
\* timeout; every other record stays as it was, no record is added, and the
\* session registry is unchanged.
C18_ReaperRemovesExactlyInactive ==
  [][reaper =>
       /\ sessions' = sessions
       /\ DOMAIN clients' \subseteq DOMAIN clients
       /\ \A c \in DOMAIN clients :
            IF clients[c].ws = 0 /\ now - clients[c].lastActivity > inactiveTimeout
            THEN c \notin DOMAIN clients'
            ELSE c \in DOMAIN clients' /\ clients'[c] = clients[c]]_vars

\* C18 witness: the record of one client is gone (only a sweep removes
\* records) while a record without a transport whose age is exactly the
\* timeout is still there, and so is a session.
C18_Witness ==
  /\ \E t \in Transports : ws[t].clientId \notin DOMAIN clients
  /\ \E c \in DOMAIN clients :
        clients[c].ws = 0 /\ now - clients[c].lastActivity = inactiveTimeout
  /\ DOMAIN sessions # {}

\* C19: a clean-up sweep removes only records that have been without a
\* transport for at least the inactivity timeout: it removes no record whose
\* transport reference was cleared less than the timeout ago, however long
\* the client was silent before.
C19_ReaperWaitsAfterClose ==
  [][reaper =>
       \A c \in DOMAIN clients :
          (c \notin DOMAIN clients')
          => (c \in DOMAIN closedAt /\ now - closedAt[c] >= inactiveTimeout)]_vars

\* C20: the acknowledgment of a disconnect request (a frame of type
\* disconnected) is written only by the step in which the request's
\* socket.logout() has come back, to the requester's transport, and in the
\* state that step leaves the request's session is not in the registry; the
\* step that receives the request writes no acknowledgment.
C20_AckAfterLogoutAndRemoval ==
  [][\A t \in Transports :
       Frame(t, "disconnected", "") \in Range(sent')
       => /\ \E p \in BagToSet(logouts) :
               /\ p.ws = t
               /\ logoutResolve(p)
               /\ p.sessionId \notin DOMAIN sessions'
          /\ ~wsMessage(t, "disconnect")]_vars

\* C20 witness: a requester bound to a session has just been sent the
\* acknowledgment, and its session is no longer registered.
C20_Witness ==
  \E t \in Transports :
     /\ sent = <<Frame(t, "disconnected", "")>>
     /\ ws[t].clientId \in DOMAIN clients
     /\ clients[ws[t].clientId].sessionId # NULL
     /\ clients[ws[t].clientId].sessionId \notin DOMAIN sessions

\* the session the record of client c is bound to is still being created:
\* a start-up for it awaits its credentials and the registry does not hold it
CreationInProgress(c) ==
  /\ c \in DOMAIN clients
  /\ Starting(clients[c].sessionId)
  /\ clients[c].sessionId \notin DOMAIN sessions

\* C21: the accept handler leaves the record of the connection in the
\* registry, with the transport attached and open, in the same step in which
\* it starts the session's creation; and while that creation is in progress
\* a heartbeat of the connection is handled at once: it sets the record's
\* lastActivity to the current time, changes nothing else of the record,
\* writes no frame, fails nowhere and leaves the start-up as it is.
C21_HeartbeatDuringCreation ==
  [][/\ \A c \in ClientIdInputs, sid \in SessionIdInputs :
          (wssConnection(c, sid) /\ Len(socket') > Len(socket))
          => /\ CreationInProgress(c)' \/ clients'[c].sessionId \in DOMAIN sessions'
             /\ clients'[c].ws = Len(ws') /\ IsOpen(ws', Len(ws'))
     /\ \A t \in Transports :
          (CreationInProgress(ws[t].clientId) /\ wsMessage(t, "heartbeat"))
          => /\ clients' = [clients EXCEPT ![ws[t].clientId].lastActivity = now]
             /\ sent' = <<>> /\ ~uncaught'
             /\ socket' = socket /\ sessions' = sessions /\ ws' = ws]_vars

\* C21 witness: an hour or more after the clock started, a connection whose
\* session is still in creation has its record in the registry, its
\* transport open and a lastActivity of the current hour.
C21_Witness ==
  \E t \in Transports :
     /\ IsOpen(ws, t)
     /\ CreationInProgress(ws[t].clientId)
     /\ clients[ws[t].clientId].ws = t
     /\ now > 0
     /\ clients[ws[t].clientId].lastActivity = now
     /\ sent = <<>>

\* C22: a record whose most recently accepted transport is open has a
\* transport reference: the close of an earlier transport of the same
\* client_id does not clear the reference to the newer one.
C22_LatestOpenHasTransport ==
  \A c \in DOMAIN clients : LatestOpen(c) => clients[c].ws # 0

\* C23: a session for which a disconnect request has been handled is not in
\* the session registry, and stays out of it until a connection asks for it
\* again, whatever the adapter's close handling and restart do meanwhile.
C23_DisconnectedStaysAbsent ==
  \A s \in handled : s \notin DOMAIN sessions

\* the frames a failed start-up owes the client that created socket a: one
\* qr_code_status with status error if that client's record holds an open
\* transport, nothing otherwise
ErrorNotice(a) ==
  LET c == socket[a].clientId IN
  IF c \in DOMAIN clients /\ clients[c].ws # 0 /\ IsOpen(ws, clients[c].ws)
  THEN <<Frame(clients[c].ws, "qr_code_status", "error")>>
  ELSE <<>>

\* C24: a start-up that fails adds nothing to the session registry, removes
\* or changes no record, and writes exactly one qr_code_status frame with
\* status error to the creating client when its transport is open (and no
\* frame otherwise). As long as the registry holds no session under that id,
\* a request_status_updates or request_media of that client is answered
\* with one error frame of code NO_SESSION.
C24_FailedStartLeavesNoSession ==
  [][/\ \A a \in Sockets :
          startReject(a) =>
            /\ sessions' = sessions
            /\ clients' = clients
            /\ sent' = ErrorNotice(a)
     /\ \A t \in Transports, kind \in RequestKinds :
          (/\ ws[t].clientId \in DOMAIN clients
           /\ clients[ws[t].clientId].sessionId \notin DOMAIN sessions
           /\ wsMessage(t, kind))
          => sent' = <<Frame(t, "error", "NO_SESSION")>>]_vars

\* C24 witness: the only start-up so far has failed, the client that asked
\* for it has been told so on its open transport, its record is still bound
\* to the session id, and the registry is empty.
C24_Witness ==
  \E t \in Transports :
     /\ Len(socket) = 1 /\ socket[1] = DeadSocket
     /\ sent = <<Frame(t, "qr_code_status", "error")>>
     /\ IsOpen(ws, t)
     /\ ws[t].clientId \in DOMAIN clients
     /\ clients[ws[t].clientId].sessionId # NULL
     /\ sessions = EmptyMap
====
